---- MODULE Spec2Model ----
(***************************************************************************)
(* Room Inspector (src/streamlit_app.py): one Streamlit script run per     *)
(* button press.  A run checks its preconditions, asks the vision oracle,  *)
(* classifies the verdict, writes last_clean.txt and the photo, and        *)
(* publishes both through push_last_clean_to_github.                       *)
(*                                                                         *)
(* Strings the code takes apart (the remote URL, the oracle reply) are     *)
(* sequences of tokens; strings it only builds (file names, timestamps)    *)
(* are TLA+ strings.                                                       *)
(***************************************************************************)
EXTENDS Integers, Sequences, FiniteSets, TLC

\* ---------------------------------------------------------------- bounds
\* Number of timestamps the clock can hand out (inspections that get as far
\* as line 268).
MaxTime == 2

\* Script sessions that may exist; a specification activates some of them.
Procs == {1, 2}

\* ------------------------------------------------------- string helpers
StartsWith(s, pre) ==
    Len(s) >= Len(pre) /\ SubSeq(s, 1, Len(pre)) = pre

EndsWith(s, suf) ==
    Len(s) >= Len(suf) /\ SubSeq(s, Len(s) - Len(suf) + 1, Len(s)) = suf

Contains(s, tok) == \E i \in 1..Len(s) : s[i] = tok

\* index of the first occurrence of tok in s (s must contain it)
FirstIndex(s, tok) ==
    CHOOSE i \in 1..Len(s) : s[i] = tok /\ \A j \in 1..(i - 1) : s[j] # tok

\* s.split(tok, 1)[1]
AfterFirst(s, tok) == SubSeq(s, FirstIndex(s, tok) + 1, Len(s))

\* s.rstrip(tok)
RECURSIVE RStrip(_, _)
RStrip(s, tok) ==
    IF Len(s) > 0 /\ s[Len(s)] = tok
    THEN RStrip(SubSeq(s, 1, Len(s) - 1), tok)
    ELSE s

\* -------------------------------------------------------- remote URLs
NoToken == ""
Token == "ghp_tok"

\* lines 105-111: the URL that carries the token
NewUrl(token, old_url) ==
    LET rest0 == AfterFirst(old_url, "://")
        rest1 == IF EndsWith(rest0, <<".git">>)
                 THEN rest0
                 ELSE RStrip(rest0, "/") \o <<".git">>
        rest2 == IF Contains(rest1, "@") THEN AfterFirst(rest1, "@") ELSE rest1
    IN  <<"https", "://", token, ":", "x-oauth-basic", "@">> \o rest2

\* line 105: the condition under which the URL is rewritten
ShouldRewrite(token, old_url) ==
    token # NoToken /\ StartsWith(old_url, <<"https", "://">>)

\* lines 105-112: the stored URL after the rewrite step
RewrittenUrl(token, old_url) ==
    IF ShouldRewrite(token, old_url) THEN NewUrl(token, old_url) ELSE old_url

\* lines 119-122: the stored URL after the finally block
RestoredUrlNever(token, old_url, cur_url) == cur_url

RestoredUrl(token, old_url, cur_url) ==
    IF token # NoToken /\ old_url # <<>> THEN old_url ELSE cur_url

\* remote URLs a checkout may be configured with
RemoteUrls ==
    { <<"https", "://", "host", "/", "repo", ".git">>,
      <<"https", "://", "user", "@", "host", "/", "repo", "/">>,
      <<"git", "@", "host", ":", "repo", ".git">>,
      <<>> }

\* ------------------------------------------------------- oracle replies
BoolKeys == {"same_room", "is_too_narrow_photo", "is_clean"}

\* a dict without keys; also the value of data before line 258
NoData == [k \in {} |-> TRUE]

\* reply tokens: a fence (three backquotes, labelled json or bare), white
\* space, prose, or the text of one JSON value
Tok(kind) == [t |-> kind, isobj |-> FALSE, v |-> NoData]
JsonObject(d) == [t |-> "json", isobj |-> TRUE, v |-> d]
JsonArray == [t |-> "json", isobj |-> FALSE, v |-> NoData]
FenceJson == Tok("fence_json")
Fence == Tok("fence")
NL == Tok("\n")
Prose == Tok("prose")

IsSpace(tok) == tok.t = "\n"

\* str.strip()
RECURSIVE LStrip(_)
LStrip(s) == IF Len(s) > 0 /\ IsSpace(s[1]) THEN LStrip(Tail(s)) ELSE s

RECURSIVE RStripSpace(_)
RStripSpace(s) ==
    IF Len(s) > 0 /\ IsSpace(s[Len(s)])
    THEN RStripSpace(SubSeq(s, 1, Len(s) - 1))
    ELSE s

Strip(s) == RStripSpace(LStrip(s))

\* str.removeprefix / str.removesuffix for a one-token affix
RemovePrefix(s, tok) == IF Len(s) > 0 /\ s[1] = tok THEN Tail(s) ELSE s

RemoveSuffix(s, tok) ==
    IF Len(s) > 0 /\ s[Len(s)] = tok THEN SubSeq(s, 1, Len(s) - 1) ELSE s

\* lines 255-257: strip, then drop a labelled fence
Unfenced(raw) ==
    LET content == Strip(raw)
    IN  IF Len(content) > 0 /\ content[1] = FenceJson
        THEN RemoveSuffix(RemovePrefix(content, FenceJson), Fence)
        ELSE content

\* json.loads: one JSON value, white space around it allowed
JsonLoads(content) ==
    LET c == Strip(content)
    IN  IF Len(c) = 1 /\ c[1].t = "json"
        THEN [ok |-> TRUE, value |-> c[1]]
        ELSE [ok |-> FALSE, value |-> JsonArray]

\* lines 250-265: what the try block makes of an oracle response
ParseReplyLenient(response) ==
    IF response.raises THEN [status |-> "openai_error", value |-> JsonArray]
    ELSE LET r == JsonLoads(Unfenced(response.content))
         IN  IF r.ok THEN [status |-> "ok", value |-> r.value]
             ELSE [status |-> "ok", value |-> JsonObject(NoData)]

ParseReply(response) ==
    IF response.raises THEN [status |-> "openai_error", value |-> JsonArray]
    ELSE LET r == JsonLoads(Unfenced(response.content))
         IN  IF r.ok THEN [status |-> "ok", value |-> r.value]
             ELSE [status |-> "bad_json", value |-> JsonArray]

\* ----------------------------------------------------- classification
\* dict.get(key, default)
Get(d, k, default) == IF k \in DOMAIN d THEN d[k] ELSE default

\* lines 271-291: the branch taken, named by the message it shows
OutcomeCleanFirst(d) ==
    IF Get(d, "is_clean", FALSE) THEN "CLEAN"
    ELSE IF ~Get(d, "same_room", FALSE) THEN "DIFFERENT_ROOM"
    ELSE IF ~Get(d, "is_too_narrow_photo", TRUE) THEN "TOO_NARROW"
    ELSE "DIRTY"

Outcome(d) ==
    IF ~Get(d, "same_room", FALSE) THEN "DIFFERENT_ROOM"
    ELSE IF ~Get(d, "is_too_narrow_photo", TRUE) THEN "TOO_NARROW"
    ELSE IF Get(d, "is_clean", FALSE) THEN "CLEAN"
    ELSE "DIRTY"

\* lines 273, 276, 282, 291: what each branch appends to file_name
Suffix(outcome) ==
    CASE outcome = "DIFFERENT_ROOM" -> "_diff_room"
      [] outcome = "TOO_NARROW" -> "_to_narrow_pic"
      [] outcome = "CLEAN" -> "_clean"
      [] outcome = "DIRTY" -> "not_clean"

\* line 268: datetime.now().isoformat() at clock reading t
IsoFormat(t) == "2025-01-01T00:00:0" \o ToString(t)

MarkerPath == "last_clean.txt"

\* the verdicts an oracle can send: each boolean field true, false or
\* absent, suggestions absent, empty or filled
BoolParts == UNION { [D -> BOOLEAN] : D \in SUBSET BoolKeys }

SuggestionParts ==
    { NoData,
      [k \in {"suggestions"} |-> <<>>],
      [k \in {"suggestions"} |-> <<"tip 1", "tip 2">>] }

Verdicts == { b @@ s : b \in BoolParts, s \in SuggestionParts }

Response(content) == [raises |-> FALSE, content |-> content]
TransportError == [raises |-> TRUE, content |-> <<>>]

\* --------------------------------------------------------------- state
VARIABLES
    sessions,       \* the script sessions that exist
    oracle,         \* the responses the vision oracle may give
    now,            \* the wall clock, read by datetime.now()
    marker,         \* content of last_clean.txt
    photos,         \* names of the photo files on disk
    origin_url,     \* url of remote "origin" in .git/config
    index,          \* paths staged and not yet committed
    commits,        \* number of commits made
    pc,             \* where each session's script run stands
    github_token,   \* line 55: the token in the secrets
    inputs,         \* lines 47-77: what the run finds (keys, photos)
    resp,           \* line 250
    data,           \* line 258
    timestamp,      \* line 268
    file_name,      \* lines 269-295
    clean,          \* lines 270, 285
    outcome,        \* the branch of lines 271-291 that was taken
    files_to_push,  \* lines 299-301
    old_url,        \* line 104
    ui,             \* the st.error / st.warning / ... messages of this run
    effects,        \* what this run did to the oracle, the disk and the repository
    url_at_call,    \* url of "origin" when the publish call was entered
    overlapped      \* a call has read the url while another call held it

disk == <<marker, photos>>
repo == <<origin_url, index, commits>>
env == <<sessions, oracle, github_token>>
locals == <<inputs, resp, data, timestamp, file_name, clean, outcome,
            files_to_push, old_url, url_at_call>>
ghost == <<overlapped>>
vars == <<env, now, disk, repo, pc, locals, ui, effects, ghost>>

NoFile == "<no file>"
NoOutcome == "NONE"
Outcomes == {"DIFFERENT_ROOM", "TOO_NARROW", "DIRTY", "CLEAN"}

\* a script run has ended: st.stop(), an uncaught exception, or the last line
Ended == {"idle", "stopped", "crashed", "done"}

Msg(level, text) == [level |-> level, text |-> text]

\* ------------------------------------------------------------------ Init
\* a run that finds the reference photo, both keys and a captured photo
AllPresent ==
    [ref_exists |-> TRUE, openai_key |-> TRUE, gemini_key |-> TRUE,
     has_photo |-> TRUE]

\* the responses of the main specification: one verdict per outcome, the
\* wrappings of a reply, prose, a JSON value that is no object, no answer
CleanVerdict ==
    [k \in BoolKeys |-> TRUE]

DirtyVerdict ==
    [k \in BoolKeys |-> k # "is_clean"]
        @@ [k \in {"suggestions"} |-> <<"tip 1", "tip 2">>]

NarrowVerdict ==
    [k \in BoolKeys |-> k = "same_room"]

OtherRoomVerdict ==
    [k \in {"same_room"} |-> FALSE]

MainResponses ==
    { Response(<<JsonObject(CleanVerdict)>>),
      Response(<<JsonObject(DirtyVerdict)>>),
      Response(<<JsonObject(NarrowVerdict)>>),
      Response(<<JsonObject(OtherRoomVerdict)>>),
      Response(<<FenceJson, NL, JsonObject(CleanVerdict), NL, Fence, NL>>),
      Response(<<Fence, NL, JsonObject(CleanVerdict), NL, Fence>>),
      Response(<<Prose>>),
      Response(<<JsonArray>>),
      TransportError }

InitLocals ==
    /\ pc = [p \in Procs |-> "idle"]
    /\ inputs = [p \in Procs |-> AllPresent]
    /\ resp = [p \in Procs |-> TransportError]
    /\ data = [p \in Procs |-> JsonArray]
    /\ timestamp = [p \in Procs |-> 0]
    /\ file_name = [p \in Procs |-> ""]
    /\ clean = [p \in Procs |-> FALSE]
    /\ outcome = [p \in Procs |-> NoOutcome]
    /\ files_to_push = [p \in Procs |-> <<>>]
    /\ old_url = [p \in Procs |-> <<>>]
    /\ url_at_call = [p \in Procs |-> <<>>]
    /\ ui = [p \in Procs |-> <<>>]
    /\ effects = [p \in Procs |-> <<>>]

InitWorld ==
    /\ overlapped = FALSE
    /\ marker = NoFile
    /\ photos = {}
    /\ index = {}
    /\ commits = 0

Init ==
    /\ sessions = {1}
    /\ oracle = MainResponses
    /\ github_token \in {NoToken, Token}
    /\ origin_url \in RemoteUrls
    /\ now = 0
    /\ InitWorld
    /\ InitLocals

\* --------------------------------------------------------------- actions
Show(p, msgs) == ui' = [ui EXCEPT ![p] = @ \o msgs]
Did(p, evs) == effects' = [effects EXCEPT ![p] = @ \o evs]

\* lines 62-64 and 190-200: the first precondition that is missing, in the
\* order the script tests them; "" when none is
PreconditionErrorNoPhotoTest(ref_exists, openai_key, gemini_key, has_photo) ==
    IF ~ref_exists THEN "reference photo missing"
    ELSE IF ~openai_key THEN "OpenAI key missing"
    ELSE IF ~gemini_key THEN "Gemini key missing"
    ELSE ""

PreconditionError(ref_exists, openai_key, gemini_key, has_photo) ==
    IF ~ref_exists THEN "reference photo missing"
    ELSE IF ~openai_key THEN "OpenAI key missing"
    ELSE IF ~gemini_key THEN "Gemini key missing"
    ELSE IF ~has_photo THEN "no photo taken"
    ELSE ""

\* what a run finds when the button is pressed: everything in place, one
\* thing missing, or everything missing
PressInputs ==
    { [ref_exists |-> r, openai_key |-> o, gemini_key |-> g, has_photo |-> h] :
        <<r, o, g, h>> \in { <<TRUE, TRUE, TRUE, TRUE>>,
                             <<FALSE, TRUE, TRUE, TRUE>>,
                             <<TRUE, FALSE, TRUE, TRUE>>,
                             <<TRUE, TRUE, FALSE, TRUE>>,
                             <<TRUE, TRUE, TRUE, FALSE>>,
                             <<FALSE, FALSE, FALSE, FALSE>> } }

\* lines 32-205: the button is pressed and the script runs from the top down
\* to the oracle request
Press(p) ==
    /\ p \in sessions
    /\ pc[p] \in Ended
    /\ \E in \in PressInputs :
          LET err == PreconditionError(in.ref_exists, in.openai_key,
                                       in.gemini_key, in.has_photo)
          IN  /\ inputs' = [inputs EXCEPT ![p] = in]
              /\ ui' = [ui EXCEPT ![p] =
                          IF err = "" THEN <<>> ELSE <<Msg("error", err)>>]
              /\ pc' = [pc EXCEPT ![p] = IF err = "" THEN "oracle" ELSE "stopped"]
    /\ resp' = [resp EXCEPT ![p] = TransportError]
    /\ data' = [data EXCEPT ![p] = JsonArray]
    /\ timestamp' = [timestamp EXCEPT ![p] = 0]
    /\ file_name' = [file_name EXCEPT ![p] = ""]
    /\ clean' = [clean EXCEPT ![p] = FALSE]
    /\ outcome' = [outcome EXCEPT ![p] = NoOutcome]
    /\ files_to_push' = [files_to_push EXCEPT ![p] = <<>>]
    /\ old_url' = [old_url EXCEPT ![p] = <<>>]
    /\ url_at_call' = [url_at_call EXCEPT ![p] = <<>>]
    /\ effects' = [effects EXCEPT ![p] = <<>>]
    /\ UNCHANGED <<env, ghost, now, disk, repo>>

\* lines 248-265: the request to the oracle and the parsing of its reply
OracleCallRetrying(p) ==
    /\ p \in sessions
    /\ pc[p] = "oracle"
    /\ \E r \in oracle :
          LET parsed == ParseReply(r)
          IN  /\ resp' = [resp EXCEPT ![p] = r]
              /\ IF parsed.status = "ok"
                 THEN /\ data' = [data EXCEPT ![p] = parsed.value]
                      /\ pc' = [pc EXCEPT ![p] = "classify"]
                 ELSE /\ pc' = [pc EXCEPT ![p] =
                                  IF Len(effects[p]) = 0 THEN "oracle" ELSE "stopped"]
                      /\ UNCHANGED data
    /\ Did(p, <<"oracle_request">>)
    /\ UNCHANGED <<env, ghost, inputs, now, disk, repo, timestamp, file_name,
                   clean, outcome, files_to_push, old_url, url_at_call, ui>>

OracleCall(p) ==
    /\ p \in sessions
    /\ pc[p] = "oracle"
    /\ \E r \in oracle :
          LET parsed == ParseReply(r)
          IN  /\ resp' = [resp EXCEPT ![p] = r]
              /\ IF parsed.status = "ok"
                 THEN /\ data' = [data EXCEPT ![p] = parsed.value]
                      /\ pc' = [pc EXCEPT ![p] = "classify"]
                      /\ UNCHANGED ui
                 ELSE /\ Show(p, <<Msg("error", parsed.status)>>)
                      /\ pc' = [pc EXCEPT ![p] = "stopped"]
                      /\ UNCHANGED data
    /\ Did(p, <<"oracle_request">>)
    /\ UNCHANGED <<env, ghost, inputs, now, disk, repo, timestamp, file_name,
                   clean, outcome, files_to_push, old_url, url_at_call>>

\* lines 272, 275, 281, 290-293: the messages of each branch
OutcomeMessages(o, d) ==
    CASE o = "DIFFERENT_ROOM" -> <<Msg("error", "not the same room")>>
      [] o = "TOO_NARROW" -> <<Msg("error", "photo too narrow")>>
      [] o = "CLEAN" -> <<Msg("success", "room is clean")>>
      [] o = "DIRTY" ->
            <<Msg("warning", "room is not clean")>>
                \o [i \in 1..Len(Get(d, "suggestions", <<>>)) |->
                        Msg("markdown", Get(d, "suggestions", <<>>)[i])]

\* lines 268-282, 289-293: the timestamp is taken and the verdict classified;
\* a JSON value that is no object has no .get and ends the run at line 271
Classify(p) ==
    /\ p \in sessions
    /\ pc[p] = "classify"
    /\ now < MaxTime
    /\ now' = now + 1
    /\ timestamp' = [timestamp EXCEPT ![p] = now]
    /\ IF data[p].isobj
       THEN LET o == Outcome(data[p].v)
            IN  /\ outcome' = [outcome EXCEPT ![p] = o]
                /\ file_name' = [file_name EXCEPT ![p] = IsoFormat(now) \o Suffix(o)]
                /\ Show(p, OutcomeMessages(o, data[p].v))
                /\ pc' = [pc EXCEPT ![p] =
                            IF o = "CLEAN" THEN "write_marker" ELSE "save_photo"]
       ELSE /\ pc' = [pc EXCEPT ![p] = "crashed"]
            /\ file_name' = [file_name EXCEPT ![p] = IsoFormat(now)]
            /\ UNCHANGED <<outcome, ui>>
    /\ UNCHANGED <<env, ghost, inputs, disk, repo, resp, data, clean,
                   files_to_push, old_url, url_at_call, effects>>

\* line 284: Path.write_text opens the file for writing, which empties it,
\* and then writes; it can fail before or after the file is emptied
WriteResults == {"ok", "open_failed", "write_failed"}

MarkerAfterFileName(result, old, ts) ==
    CASE result = "ok" -> IsoFormat(ts) \o "_clean"
      [] result = "open_failed" -> old
      [] result = "write_failed" -> ""

MarkerAfter(result, old, ts) ==
    CASE result = "ok" -> IsoFormat(ts)
      [] result = "open_failed" -> old
      [] result = "write_failed" -> ""

\* lines 283-288: the marker write of the CLEAN branch
WriteMarkerAlwaysClean(p) ==
    /\ p \in sessions
    /\ pc[p] = "write_marker"
    /\ \E result \in WriteResults :
          /\ marker' = MarkerAfter(result, marker, timestamp[p])
          /\ clean' = [clean EXCEPT ![p] = TRUE]
          /\ IF result = "ok"
             THEN /\ Did(p, <<"marker_write">>)
                  /\ UNCHANGED ui
             ELSE /\ Show(p, <<Msg("warning", "last_clean.txt not updated")>>)
                  /\ Did(p, <<"marker_write_failed">>)
    /\ pc' = [pc EXCEPT ![p] = "save_photo"]
    /\ UNCHANGED <<env, ghost, inputs, now, photos, repo, resp, data, timestamp,
                   file_name, outcome, files_to_push, old_url, url_at_call>>

WriteMarker(p) ==
    /\ p \in sessions
    /\ pc[p] = "write_marker"
    /\ \E result \in WriteResults :
          /\ marker' = MarkerAfter(result, marker, timestamp[p])
          /\ IF result = "ok"
             THEN /\ clean' = [clean EXCEPT ![p] = TRUE]
                  /\ Did(p, <<"marker_write">>)
                  /\ UNCHANGED ui
             ELSE /\ Show(p, <<Msg("warning", "last_clean.txt not updated")>>)
                  /\ Did(p, <<"marker_write_failed">>)
                  /\ UNCHANGED clean
    /\ pc' = [pc EXCEPT ![p] = "save_photo"]
    /\ UNCHANGED <<env, ghost, inputs, now, photos, repo, resp, data, timestamp,
                   file_name, outcome, files_to_push, old_url, url_at_call>>

\* lines 299-301
FilesToPushAlwaysMarker(name, is_clean) == <<name, MarkerPath>>

FilesToPush(name, is_clean) ==
    IF is_clean THEN <<name, MarkerPath>> ELSE <<name>>

\* lines 295-301: the photo is written; a failing open or write is not
\* caught and ends the run
SavePhoto(p) ==
    /\ p \in sessions
    /\ pc[p] = "save_photo"
    /\ file_name' = [file_name EXCEPT ![p] = @ \o ".jpg"]
    /\ \E ok \in BOOLEAN :
          IF ok
          THEN /\ photos' = photos \cup {file_name'[p]}
               /\ files_to_push' = [files_to_push EXCEPT ![p] =
                                       FilesToPush(file_name'[p], clean[p])]
               /\ Did(p, <<"photo_write">>)
               /\ pc' = [pc EXCEPT ![p] = "publish"]
          ELSE /\ pc' = [pc EXCEPT ![p] = "crashed"]
               /\ Did(p, <<"photo_write_failed">>)
               /\ UNCHANGED <<photos, files_to_push>>
    /\ UNCHANGED <<env, ghost, inputs, now, marker, repo, resp, data, timestamp,
                   clean, outcome, old_url, url_at_call, ui>>

\* ------------------------------------------- push_last_clean_to_github
\* lines 87-96: how far the call gets before it touches the repository
PublishGateNoTokenTest(token, git_installed, is_repo) ==
    IF ~git_installed THEN "no_gitpython"
    ELSE IF ~is_repo THEN "not_a_repo"
    ELSE "go"

PublishGate(token, git_installed, is_repo) ==
    IF token = NoToken THEN "disabled"
    ELSE IF ~git_installed THEN "no_gitpython"
    ELSE IF ~is_repo THEN "not_a_repo"
    ELSE "go"

\* lines 88, 90, 95: what each early return shows
GateMessages(gate) ==
    CASE gate = "disabled" -> <<>>
      [] gate = "no_gitpython" -> <<Msg("warning", "GitPython not installed")>>
      [] gate = "not_a_repo" -> <<Msg("warning", "not a git repository")>>
      [] gate = "go" -> <<>>

\* lines 302, 85-96: the call and its early returns
PublishEnter(p) ==
    /\ p \in sessions
    /\ pc[p] = "publish"
    /\ url_at_call' = [url_at_call EXCEPT ![p] = origin_url]
    /\ \E git_installed, is_repo \in BOOLEAN :
          LET gate == PublishGate(github_token, git_installed, is_repo)
          IN  /\ Show(p, GateMessages(gate))
              /\ pc' = [pc EXCEPT ![p] = IF gate = "go" THEN "pub_add" ELSE "done"]
    /\ Did(p, <<"publish_call">>)
    /\ UNCHANGED <<env, ghost, inputs, now, disk, repo, resp, data, timestamp,
                   file_name, clean, outcome, files_to_push, old_url>>

Range(f) == { f[i] : i \in DOMAIN f }

\* line 99: repo.index.add(files); an exception leaves the function
PublishAdd(p) ==
    /\ p \in sessions
    /\ pc[p] = "pub_add"
    /\ \E ok \in BOOLEAN :
          IF ok
          THEN /\ index' = index \cup Range(files_to_push[p])
               /\ Did(p, <<"stage">>)
               /\ pc' = [pc EXCEPT ![p] = "pub_commit"]
          ELSE /\ Did(p, <<"stage_failed">>)
               /\ pc' = [pc EXCEPT ![p] = "crashed"]
               /\ UNCHANGED index
    /\ UNCHANGED <<env, ghost, now, disk, origin_url, commits, locals, ui>>

\* line 100: repo.index.commit("Update"); an exception leaves the function
PublishCommit(p) ==
    /\ p \in sessions
    /\ pc[p] = "pub_commit"
    /\ \E ok \in BOOLEAN :
          IF ok
          THEN /\ commits' = commits + 1
               /\ index' = {}
               /\ Did(p, <<"commit">>)
               /\ pc' = [pc EXCEPT ![p] = "pub_rewrite"]
          ELSE /\ Did(p, <<"commit_failed">>)
               /\ pc' = [pc EXCEPT ![p] = "crashed"]
               /\ UNCHANGED <<index, commits>>
    /\ UNCHANGED <<env, ghost, now, disk, origin_url, locals, ui>>

\* session p is between the url rewrite of line 112 and the restore of line 122
HoldsUrl(p) == pc[p] \in {"pub_push", "pub_restore"}

\* lines 103-112: read the url and put the token into it
PublishRewrite(p) ==
    /\ p \in sessions
    /\ pc[p] = "pub_rewrite"
    /\ old_url' = [old_url EXCEPT ![p] = origin_url]
    /\ origin_url' = RewrittenUrl(github_token, origin_url)
    /\ IF ShouldRewrite(github_token, origin_url)
       THEN Did(p, <<"set_url">>)
       ELSE UNCHANGED effects
    /\ overlapped' = (overlapped \/ \E q \in sessions \ {p} : HoldsUrl(q))
    /\ pc' = [pc EXCEPT ![p] = "pub_push"]
    /\ UNCHANGED <<env, inputs, now, disk, index, commits, resp, data,
                   timestamp, file_name, clean, outcome, files_to_push,
                   url_at_call, ui>>

\* lines 114-118: the push; its exception is caught and shown
PublishPushUncaught(p) ==
    /\ p \in sessions
    /\ pc[p] = "pub_push"
    /\ \E ok \in BOOLEAN :
          IF ok
          THEN /\ Show(p, <<Msg("info", "pushed")>>)
               /\ Did(p, <<"push_ok">>)
               /\ pc' = [pc EXCEPT ![p] = "pub_restore"]
          ELSE /\ Did(p, <<"push_failed">>)
               /\ pc' = [pc EXCEPT ![p] = "crashed"]
               /\ UNCHANGED ui
    /\ UNCHANGED <<env, ghost, now, disk, repo, locals>>

PublishPush(p) ==
    /\ p \in sessions
    /\ pc[p] = "pub_push"
    /\ \E ok \in BOOLEAN :
          IF ok
          THEN /\ Show(p, <<Msg("info", "pushed")>>)
               /\ Did(p, <<"push_ok">>)
          ELSE /\ Show(p, <<Msg("warning", "push failed")>>)
               /\ Did(p, <<"push_failed">>)
    /\ pc' = [pc EXCEPT ![p] = "pub_restore"]
    /\ UNCHANGED <<env, ghost, now, disk, repo, locals>>

\* lines 119-122: the finally block
PublishRestoreKeepsUrl(p) ==
    /\ p \in sessions
    /\ pc[p] = "pub_restore"
    /\ IF github_token # NoToken /\ old_url[p] # <<>>
       THEN Did(p, <<"restore_url">>)
       ELSE UNCHANGED effects
    /\ pc' = [pc EXCEPT ![p] = "done"]
    /\ UNCHANGED <<env, ghost, now, disk, repo, locals, ui>>

PublishRestore(p) ==
    /\ p \in sessions
    /\ pc[p] = "pub_restore"
    /\ origin_url' = RestoredUrl(github_token, old_url[p], origin_url)
    /\ IF github_token # NoToken /\ old_url[p] # <<>>
       THEN Did(p, <<"restore_url">>)
       ELSE UNCHANGED effects
    /\ pc' = [pc EXCEPT ![p] = "done"]
    /\ UNCHANGED <<env, ghost, now, disk, index, commits, locals, ui>>

\* ------------------------------------------------------- specifications
Next ==
    \E p \in Procs :
        \/ Press(p)
        \/ OracleCall(p)
        \/ Classify(p)
        \/ WriteMarker(p)
        \/ SavePhoto(p)
        \/ PublishEnter(p)
        \/ PublishAdd(p)
        \/ PublishCommit(p)
        \/ PublishRewrite(p)
        \/ PublishPush(p)
        \/ PublishRestore(p)

\* one inspection at a time, as section 5 of the specification has it
Spec == Init /\ [][Next]_vars

TypeOK ==
    /\ pc \in [Procs -> Ended \cup {"oracle", "classify", "write_marker",
                 "save_photo", "publish", "pub_add", "pub_commit",
                 "pub_rewrite", "pub_push", "pub_restore"}]
    /\ now \in 0..MaxTime
    /\ outcome \in [Procs -> Outcomes \cup {NoOutcome}]
    /\ commits \in 0..MaxTime

\* every verdict the oracle can send, each as a bare JSON object
VerdictResponses == { Response(<<JsonObject(v)>>) : v \in Verdicts }

\* the classification of one verdict: the clock has one reading left
InitVerdicts ==
    /\ sessions = {1}
    /\ oracle = VerdictResponses
    /\ github_token \in {NoToken, Token}
    /\ origin_url = <<"https", "://", "host", "/", "repo", ".git">>
    /\ now = MaxTime - 1
    /\ InitWorld
    /\ InitLocals

SpecVerdicts == InitVerdicts /\ [][Next]_vars

\* ----------------------------------------------------------------- claims
\* the verdict of session p has field k with value val
Has(p, k, val) ==
    /\ data[p].isobj
    /\ k \in DOMAIN data[p].v
    /\ data[p].v[k] = val

\* the verdict of session p lacks field k
Lacks(p, k) == data[p].isobj /\ k \notin DOMAIN data[p].v

Classified(p) == outcome[p] # NoOutcome

\* the photo's name is complete: line 295 has run
Named(p) ==
    Classified(p) /\ pc[p] \notin {"classify", "write_marker", "save_photo"}

ReachedPush(p) ==
    Contains(effects[p], "push_ok") \/ Contains(effects[p], "push_failed")

\* C1: when a publish call that reached the push step has ended, whether the
\* push succeeded or raised, the url of origin is the url it had when the
\* call began.
C1_UrlRestored ==
    \A p \in sessions :
        (pc[p] = "done" /\ ReachedPush(p)) => origin_url = url_at_call[p]

C1_Witness ==
    \E p \in sessions :
        /\ pc[p] = "done"
        /\ Contains(effects[p], "set_url")
        /\ Contains(effects[p], "push_failed")
        /\ origin_url = url_at_call[p]
        /\ ~Contains(origin_url, Token)

\* C2: a verdict with same_room false is classified DIFFERENT_ROOM, whatever
\* its other fields are.
C2_DifferentRoomFirst ==
    \A p \in sessions :
        (Classified(p) /\ Has(p, "same_room", FALSE))
            => outcome[p] = "DIFFERENT_ROOM"

C2_Witness ==
    \E p \in sessions :
        /\ Has(p, "same_room", FALSE)
        /\ Has(p, "is_too_narrow_photo", TRUE)
        /\ Has(p, "is_clean", TRUE)
        /\ outcome[p] = "DIFFERENT_ROOM"

\* C3: a verdict with same_room, is_too_narrow_photo and is_clean all true is
\* classified TOO_NARROW: the marker is not written and the file is not
\* tagged clean.
C3_NarrowBeatsClean ==
    \A p \in sessions :
        ( /\ Classified(p)
          /\ Has(p, "same_room", TRUE)
          /\ Has(p, "is_too_narrow_photo", TRUE)
          /\ Has(p, "is_clean", TRUE) )
            => /\ outcome[p] = "TOO_NARROW"
               /\ ~Contains(effects[p], "marker_write")
               /\ file_name[p] \notin
                     { IsoFormat(timestamp[p]) \o "_clean" \o ext :
                         ext \in {"", ".jpg"} }

\* C4: a verdict with same_room true, is_too_narrow_photo false and is_clean
\* true is classified CLEAN, whatever its suggestions are.
C4_CleanWhenWide ==
    \A p \in sessions :
        ( /\ Classified(p)
          /\ Has(p, "same_room", TRUE)
          /\ Has(p, "is_too_narrow_photo", FALSE)
          /\ Has(p, "is_clean", TRUE) )
            => outcome[p] = "CLEAN"

\* the verdict d with is_too_narrow_photo set to false
WithNarrowFalse(d) ==
    [k \in DOMAIN d \cup {"is_too_narrow_photo"} |->
        IF k = "is_too_narrow_photo" THEN FALSE ELSE d[k]]

\* C5: a verdict without is_too_narrow_photo is classified as the same
\* verdict with is_too_narrow_photo false: never TOO_NARROW, and with
\* same_room true CLEAN or DIRTY by is_clean.
C5_AbsentNarrowIsFalse ==
    \A p \in sessions :
        (Classified(p) /\ Lacks(p, "is_too_narrow_photo"))
            => /\ outcome[p] = Outcome(WithNarrowFalse(data[p].v))
               /\ outcome[p] # "TOO_NARROW"
               /\ Has(p, "same_room", TRUE) =>
                     outcome[p] = IF Has(p, "is_clean", TRUE)
                                  THEN "CLEAN" ELSE "DIRTY"

\* session p takes the marker step of a CLEAN inspection
MarkerStep(p) == pc[p] = "write_marker" /\ pc'[p] # "write_marker"

\* C6 as stated: every CLEAN inspection overwrites the marker with its own
\* timestamp, nothing else changes the marker, and the marker is never
\* deleted.
C6_MarkerIsLastClean ==
    [][ /\ \A p \in sessions :
              (outcome[p] = "CLEAN" /\ MarkerStep(p))
                  => marker' = IsoFormat(timestamp[p])
        /\ marker' # marker =>
              \E p \in sessions : outcome[p] = "CLEAN" /\ MarkerStep(p)
        /\ marker # NoFile => marker' # NoFile ]_vars

\* C6 amended: the marker changes only in the marker write of a CLEAN
\* inspection; when that write succeeds the marker holds the inspection's
\* timestamp, when it fails the marker is left as it was or truncated; an
\* inspection with another outcome leaves it unchanged, and it is never
\* deleted.
C6_MarkerIsLastCleanWritten ==
    [][ /\ \A p \in sessions :
              (outcome[p] = "CLEAN" /\ MarkerStep(p)) =>
                  IF clean'[p]
                  THEN marker' = IsoFormat(timestamp[p])
                  ELSE marker' \in {marker, ""}
        /\ marker' # marker =>
              \E p \in sessions : outcome[p] = "CLEAN" /\ MarkerStep(p)
        /\ \A p \in sessions :
              (outcome'[p] \in Outcomes \ {"CLEAN"}) => marker' = marker
        /\ marker # NoFile => marker' # NoFile ]_vars

C6_Witness ==
    \E p \in sessions :
        /\ pc[p] = "done"
        /\ outcome[p] = "CLEAN"
        /\ clean[p]
        /\ timestamp[p] > 0
        /\ marker = IsoFormat(timestamp[p])

\* the reply holds no JSON object at all
NoObject(content) ==
    \A i \in 1..Len(content) : ~(content[i].t = "json" /\ content[i].isobj)

Asked(p) == Contains(effects[p], "oracle_request")

\* C7: when the oracle call fails or its reply is not the expected
\* structure, the run ends with nothing persisted: no photo, no marker
\* write, no publish call.
C7_FailedOracleAborts ==
    \A p \in sessions :
        /\ (Asked(p) /\ (resp[p].raises \/ NoObject(resp[p].content)))
              => /\ pc[p] \in {"stopped", "crashed", "classify"}
                 /\ pc[p] = "classify" => ~data[p].isobj
                 /\ effects[p] = <<"oracle_request">>
                 /\ files_to_push[p] = <<>>
                 /\ ~clean[p]
                 /\ file_name[p] \notin photos
        /\ (Asked(p) /\ pc[p] = "stopped")
              => /\ effects[p] = <<"oracle_request">>
                 /\ files_to_push[p] = <<>>
                 /\ ~clean[p]

C7_Witness ==
    \E p \in sessions :
        /\ pc[p] = "stopped"
        /\ Asked(p)
        /\ ~resp[p].raises
        /\ resp[p].content = <<Prose>>
        /\ photos # {}
        /\ marker # NoFile

\* the tag the specification gives each outcome
SpecTag(o) ==
    CASE o = "DIFFERENT_ROOM" -> "diff_room"
      [] o = "TOO_NARROW" -> "narrow_pic"
      [] o = "DIRTY" -> "not_clean"
      [] o = "CLEAN" -> "clean"

\* C8: the photo's name is the timestamp, one underscore, the tag of the
\* outcome (diff_room, narrow_pic, not_clean, clean) and .jpg.
C8_FileNameFormat ==
    \A p \in sessions :
        Named(p) =>
            file_name[p] =
                IsoFormat(timestamp[p]) \o "_" \o SpecTag(outcome[p]) \o ".jpg"

PhotoWriteFailed(p) == Contains(effects[p], "photo_write_failed")

HandedToPublish(p) == pc[p] = "publish" \/ Contains(effects[p], "publish_call")

DisabledCall(p) ==
    pc[p] = "publish" /\ pc'[p] # "publish" /\ github_token = NoToken

PublishIsNoOp(p) ==
    /\ pc'[p] = "done"
    /\ repo' = repo
    /\ disk' = disk
    /\ outcome' = outcome
    /\ file_name' = file_name

WarnedLast(p) == Len(ui[p]) > 0 /\ ui[p][Len(ui[p])].level = "warning"

PublishCalled(p) == Contains(effects[p], "publish_call")

\* C11: every failure inside publish, of staging, of the commit or of the
\* push, is shown as a warning and never leaves publish as an exception.
C11_PublishNeverRaises ==
    \A p \in sessions :
        PublishCalled(p) =>
            /\ pc[p] # "crashed"
            /\ \A ev \in {"stage_failed", "commit_failed", "push_failed"} :
                  (Contains(effects[p], ev) /\ pc[p] \in Ended) => WarnedLast(p)

MarkerWriteFailed(p) == Contains(effects[p], "marker_write_failed")

\* C12: a failed write of the photo or of the marker is shown as a warning
\* and does not end the run: publish is still called.
C12_WriteFailureTolerated ==
    \A p \in sessions :
        /\ PhotoWriteFailed(p) =>
              /\ pc[p] # "crashed"
              /\ \E i \in 1..Len(ui[p]) : ui[p][i].level = "warning"
              /\ pc[p] \in Ended => PublishCalled(p)
        /\ MarkerWriteFailed(p) =>
              /\ \E i \in 1..Len(ui[p]) : ui[p][i].level = "warning"
              /\ pc[p] \in Ended => PublishCalled(p)

\* position of event ev in the run's effects, 0 when it did not happen
Pos(p, ev) ==
    IF Contains(effects[p], ev) THEN FirstIndex(effects[p], ev) ELSE 0

Happened(p, ev) == Pos(p, ev) > 0

\* ev1 happened, and before ev2
Before(p, ev1, ev2) == Happened(p, ev1) /\ Pos(p, ev1) < Pos(p, ev2)

\* C13: in a CLEAN inspection the marker write comes before the publish
\* call, and when the marker write fails publish still runs.
C13_MarkerBeforeSync ==
    \A p \in sessions :
        outcome[p] = "CLEAN" =>
            /\ PublishCalled(p) =>
                  \/ Before(p, "marker_write", "publish_call")
                  \/ Before(p, "marker_write_failed", "publish_call")
            /\ (MarkerWriteFailed(p) /\ pc[p] \in Ended) => PublishCalled(p)

\* one of the things a run needs is missing
Missing(in) ==
    ~in.ref_exists \/ ~in.openai_key \/ ~in.gemini_key \/ ~in.has_photo

\* C14: when the reference photo, the captured photo or a key is missing,
\* the run stops with an error before the oracle is asked: no request, no
\* file written, no publish call.
C14_PreconditionHalts ==
    \A p \in sessions :
        Missing(inputs[p]) =>
            /\ pc[p] = "stopped"
            /\ effects[p] = <<>>
            /\ file_name[p] = ""
            /\ files_to_push[p] = <<>>
            /\ ~clean[p]
            /\ Len(ui[p]) = 1
            /\ ui[p][1].level = "error"

C14_Witness ==
    \E p \in sessions :
        /\ pc[p] = "stopped"
        /\ inputs[p].ref_exists
        /\ inputs[p].openai_key
        /\ inputs[p].gemini_key
        /\ ~inputs[p].has_photo
        /\ effects[p] = <<>>
        /\ photos # {}

Pushed(p) == Happened(p, "push_ok") \/ Happened(p, "push_failed")

\* C15: within one publish call the steps come in the order stage, commit,
\* url rewrite, push, url restore: no push before the commit, no rewrite
\* before the commit, and no end of the call between rewrite and restore.
C15_PublishOrder ==
    \A p \in sessions :
        /\ Happened(p, "stage") => Before(p, "publish_call", "stage")
        /\ Happened(p, "commit") => Before(p, "stage", "commit")
        /\ Happened(p, "set_url") => Before(p, "commit", "set_url")
        /\ Happened(p, "push_ok") => Before(p, "commit", "push_ok")
        /\ Happened(p, "push_failed") => Before(p, "commit", "push_failed")
        /\ (Happened(p, "set_url") /\ Happened(p, "push_ok"))
              => Before(p, "set_url", "push_ok")
        /\ (Happened(p, "set_url") /\ Happened(p, "push_failed"))
              => Before(p, "set_url", "push_failed")
        /\ Happened(p, "restore_url") =>
              \/ Before(p, "push_ok", "restore_url")
              \/ Before(p, "push_failed", "restore_url")
        /\ (Happened(p, "set_url") /\ pc[p] \in Ended) =>
              /\ Happened(p, "restore_url")
              /\ origin_url = url_at_call[p]
        /\ pc[p] \in Ended => ~Contains(origin_url, Token)

C15_Witness ==
    \E p \in sessions :
        /\ pc[p] = "done"
        /\ effects[p] = <<"oracle_request", "photo_write", "publish_call",
                          "stage", "commit", "set_url", "push_failed",
                          "restore_url">>

\* number of times event ev is in the run's effects
Count(p, ev) == Cardinality({ i \in 1..Len(effects[p]) : effects[p][i] = ev })

\* C17: one inspection sends at most one oracle request and attempts at
\* most one push, also after the request or the push has failed.
C17_NoRetry ==
    \A p \in sessions :
        /\ Count(p, "oracle_request") <= 1
        /\ Count(p, "push_ok") + Count(p, "push_failed") <= 1
        /\ (pc[p] = "stopped" /\ Asked(p)) => effects[p] = <<"oracle_request">>
        /\ Happened(p, "push_failed") =>
              pc[p] \in {"pub_restore", "done"}

C17_Witness ==
    \E p \in sessions :
        /\ pc[p] = "stopped"
        /\ resp[p].raises
        /\ Count(p, "oracle_request") = 1

\* the reply is one JSON object inside one fence, labelled or bare
FencedObject(content) ==
    LET c == Strip(content)
    IN  /\ Len(c) >= 3
        /\ c[1] \in {FenceJson, Fence}
        /\ c[Len(c)] = Fence
        /\ LET inner == Strip(SubSeq(c, 2, Len(c) - 1))
           IN  Len(inner) = 1 /\ inner[1].t = "json" /\ inner[1].isobj

\* C18: a reply that is a JSON object inside one code fence, with or
\* without a language label, is parsed and the run goes on to classify it.
C18_FenceAccepted ==
    \A p \in sessions :
        (Asked(p) /\ ~resp[p].raises /\ FencedObject(resp[p].content))
            => /\ pc[p] # "stopped"
               /\ data[p].isobj

\* C19: when publish is handed the marker path, the marker write of this
\* inspection has succeeded and the marker holds the timestamp that the
\* photo's name starts with.
C19_MarkerHandedIsFresh ==
    \A p \in sessions :
        (HandedToPublish(p) /\ Contains(files_to_push[p], MarkerPath))
            => /\ Happened(p, "marker_write")
               /\ ~MarkerWriteFailed(p)
               /\ marker = IsoFormat(timestamp[p])
               /\ file_name[p] = marker \o "_clean.jpg"

C19_Witness ==
    \E p \in sessions :
        /\ pc[p] = "pub_add"
        /\ files_to_push[p] = <<file_name[p], MarkerPath>>
        /\ timestamp[p] > 0
        /\ marker = IsoFormat(timestamp[p])

\* two sessions on one working directory: both have the token, the oracle
\* finds the room clean, the remote url carries no credential
ConcurrentUrl == <<"https", "://", "host", "/", "repo", ".git">>

InitConcurrent ==
    /\ sessions = Procs
    /\ oracle = { Response(<<JsonObject(CleanVerdict)>>) }
    /\ github_token = Token
    /\ origin_url = ConcurrentUrl
    /\ now = 0
    /\ InitWorld
    /\ InitLocals

SpecConcurrent == InitConcurrent /\ [][Next]_vars

\* C16: nothing keeps two publish calls from overlapping between rewrite and
\* restore; the token stays in the stored url after the calls have ended
\* only when a call read the url while another call held it, and then the
\* url that call took for the original carries the token.
C16_RaceOnRemoteUrl ==
    ((\A p \in sessions : ~HoldsUrl(p)) /\ Contains(origin_url, Token))
        => /\ overlapped
           /\ origin_url = NewUrl(Token, ConcurrentUrl)

C16_Witness ==
    /\ \A p \in sessions : pc[p] = "done"
    /\ origin_url # ConcurrentUrl
    /\ Contains(origin_url, Token)
    /\ \E p \in sessions : old_url[p] = origin_url
    /\ \E p \in sessions : old_url[p] = ConcurrentUrl

====
